---- MODULE Spec2Model ----
(***************************************************************************)
(* Model of the shared-access core of vakantieroosters:                    *)
(*   - lockmgr.py      EditLock: advisory edit lock on a sidecar file      *)
(*   - drive_store.py  download_db / upload_db / exclusive_writer          *)
(*   - backupmgr.py    BackupManager: throttled snapshots with retention,  *)
(*                     attachment to a SQLAlchemy session                  *)
(*   - main.py         MainWindow: edit mode of the desktop windows        *)
(* Each mechanism has its own specification over its own variables:        *)
(* SpecLock (SpecPaths: handles made for any database path; SpecSteps:     *)
(* the calls of the handles interleaved statement by statement), SpecSync  *)
(* (SpecWriter: its writers with the clock of their waits; SpecRace: one   *)
(* more revision of the host file), SpecBackup, SpecAttach, and SpecDesk,  *)
(* which drives the EditLock of SpecLock from the windows' handlers.       *)
(***************************************************************************)
EXTENDS Integers, FiniteSets, Sequences, TLC

(***************************************************************************)
(* ------------------------------ EditLock ------------------------------- *)
(* The filesystem is modelled at the level the code depends on: the        *)
(* sidecar path names at most one inode; an exclusive OS lock belongs to   *)
(* an open file description on an inode; a file removed from its directory *)
(* lives on while descriptions are open on it (POSIX), or cannot be        *)
(* removed at all (Windows: os.remove raises, which release() swallows).   *)
(***************************************************************************)

\* number of EditLock handles opened on the same database file
NumHandles == 3

Handles == 1..NumHandles

\* a handle can keep two descriptions open (its _fh and a probe), the path one
Inodes == 1..(2 * NumHandles + 1)

\* content of a sidecar file: 0 is the empty file, h the LockRecord of handle h
Contents == 0..NumHandles

VARIABLES
    path,       \* inode the sidecar path names, 0 when the file does not exist
    lockedBy,   \* inode -> description holding the OS lock: h is handle h's
                \* _fh, -h the local fh of handle h's is_locked(), 0 nobody
    content,    \* inode -> Contents
    fh,         \* EditLock._fh: handle -> inode its description is open on, 0 None
    tmp,        \* the local fh of is_locked(): handle -> inode, 0 when closed
    lpc,        \* handle -> position inside the call it is executing
    dbPath,     \* EditLock.db_file_path: handle -> [folder, file]
    started,    \* calls entered so far, counted where their steps interleave
    last        \* the call that ended last: [h, op, ret, val], ret one of
                \* "true", "false", "none", "raised" (an exception left the
                \* call) and, of holder(), "", "host\\user" and "?\\?"; val
                \* is the handle whose host and user holder() returned

lockVars == <<path, lockedBy, content, fh, tmp, lpc, dbPath, started, last>>

\* calls of one behaviour whose steps interleave
MaxCalls == 4

\* database paths: the shared database in a folder, a bare file name, no path
SharedDb == [folder |-> "dir", file |-> "x.db"]

DbPaths ==
    {SharedDb, [folder |-> "", file |-> "x.db"], [folder |-> "", file |-> ""]}

\* a lock path made from the file name alone
LockPathInWorkingDir(p) ==
    IF p.folder = "" /\ p.file = "" THEN ""
    ELSE IF p.folder # "" THEN p.folder \o "/vakantierooster.lock"
    ELSE "vakantierooster.lock"

\* lockmgr.py lines 7-11: os.path.dirname(db_path) is the folder
_lock_path_from_db_file(p) ==
    IF p.folder = "" /\ p.file = "" THEN ""
    ELSE IF p.folder # "" THEN p.folder \o "/vakantierooster.lock"
    ELSE ""

\* script-run threads of the process
NumThreads == 2

\* revisions the host hands out in one behaviour
MaxRev == 2

Threads == 1..NumThreads

\* bootstraps in use at once: the cached one and one per running script
Boots == 1..(NumThreads + 1)

VARIABLES
    hostRev,    \* the host's headRevisionId of the file
    hostBytes,  \* the host's stored bytes
    cur,        \* the cached bootstrap, 0 when the cache is empty
    boot,       \* bootstrap -> [rev: meta's headRevisionId, bytes: the local file]
    mutex,      \* drive_store._lock: the thread holding it, 0 when free
    tpc,        \* thread -> position in its script run
    tgen,       \* thread -> the bootstrap its run uses (LOCAL_DB, REMOTE_REV)
    uploads,    \* history: bootstrap -> updates made with its REMOTE_REV
    refusals,   \* history: bootstrap -> conflicts raised with its REMOTE_REV,
                \* counted to 2
    waited,     \* thread -> seconds its latest _lock.acquire(timeout=30) lasted
    revCap      \* the last revision the host hands out in this behaviour

syncVars ==
    <<hostRev, hostBytes, cur, boot, mutex, tpc, tgen, uploads,
      refusals, waited, revCap>>

\* clock value (seconds) at which a behaviour starts, days after the epoch
StartDay == 16

\* advances of the clock in one behaviour
MaxTicks == 1

\* deletions that fail in one rotation
MaxFailed == 1

\* timedelta(days=1) in seconds
Day == 86400

\* BackupManager.__init__ defaults, the values main.py passes
DefaultRetentionDays == 14

DefaultMinIntervalSec == 120

\* seconds that can pass inside one call of run_backup_now, between the
\* clock reading that names the snapshot and the one that gives the cutoff
Durs == {0, 1}

\* amounts by which the clock advances between two events
Jumps == {10, DefaultMinIntervalSec, 130}

StartTime == StartDay * Day

\* a file of the backup directory: kind "snapshot" is a file named by
\* _backup_filename() (name is the second of its timestamp), "otherdb" another
\* file whose name ends in .db, "other" any other file; valid is whether the
\* file holds a copy of the database
Snapshot(t, v) == [name |-> t, mtime |-> t, kind |-> "snapshot", valid |-> v]

\* snapshots of earlier sessions, 15, 14 and 13 days old when a behaviour starts
OldFiles ==
    {Snapshot(StartTime - k * Day, TRUE) :
        k \in {DefaultRetentionDays - 1, DefaultRetentionDays,
                DefaultRetentionDays + 1}}

\* files somebody else put into the backup directory, 15 days old
ForeignFiles ==
    {[name |-> 0, mtime |-> StartTime - (DefaultRetentionDays + 1) * Day,
      kind |-> k, valid |-> FALSE] : k \in {"otherdb", "other"}}

VARIABLES
    now,            \* the clock: time.time() and datetime.now(), in seconds
    ticks,          \* advances of the clock so far
    retentionDays,  \* BackupManager.retention_days
    minIntervalSec, \* BackupManager.min_interval_sec
    lastRun,        \* BackupManager._last_run
    files,          \* the files of the backup directory
    prevCommit,     \* history: time of the latest after-commit call, 0 none
    bret            \* history: how the latest backup call ended: "path" (it
                    \* returned the snapshot's path), "none" (it returned
                    \* None), "skip" (nothing to do), "raised", "-" no call

backupVars ==
    <<now, ticks, retentionDays, minIntervalSec, lastRun, files, prevCommit,
      bret>>

\* SQLAlchemy sessions a BackupManager is attached to in one behaviour
NumSessions == 3

Sessions == 1..NumSessions

VARIABLES
    attached,   \* BackupManager._attached_session, 0 is None
    subs,       \* session -> after_commit listeners of the manager on it
    dbfile,     \* whether db_path names an existing file
    times,      \* history: session -> attach_to_session calls, counted to 2
    fired       \* history: the latest commit: [s: its session, on: s was
                \* the attached session, nth: times[s] then, file: dbfile
                \* then, ran: handler runs, calls: maybe_backup_after_commit
                \* calls]

attachVars == <<attached, subs, dbfile, times, fired>>

VARIABLES
    readonly    \* MainWindow.readonly of the window that owns handle h

deskVars == <<readonly>>

\* the lock world as one value, so that the steps of a call compose
LockSt ==
    [path |-> path, lockedBy |-> lockedBy, content |-> content, fh |-> fh,
     tmp |-> tmp, pc |-> lpc, last |-> last,
     lockFile |-> [h \in Handles |-> _lock_path_from_db_file(dbPath[h])]]

SetLockVars(S) ==
    /\ path' = S.path
    /\ lockedBy' = S.lockedBy
    /\ content' = S.content
    /\ fh' = S.fh
    /\ tmp' = S.tmp
    /\ lpc' = S.pc
    /\ last' = S.last
    /\ UNCHANGED dbPath

SetLockSt(S) ==
    /\ SetLockVars(S)
    /\ UNCHANGED started
    /\ UNCHANGED <<syncVars, backupVars, attachVars, deskVars>>

InodeInUse(S, i) ==
    \/ S.path = i
    \/ \E h \in Handles : S.fh[h] = i \/ S.tmp[h] = i

FreeInode(S) ==
    CHOOSE i \in Inodes :
        /\ ~InodeInUse(S, i)
        /\ \A j \in Inodes : ~InodeInUse(S, j) => i <= j

\* an inode no path and no description refers to is gone
Reap(S) ==
    [S EXCEPT
        !.lockedBy = [i \in Inodes |-> IF InodeInUse(S, i) THEN S.lockedBy[i] ELSE 0],
        !.content = [i \in Inodes |-> IF InodeInUse(S, i) THEN S.content[i] ELSE 0]]

\* a call of handle h ends
Return(S, h, op, ret) ==
    [S EXCEPT !.pc[h] = "idle",
              !.last = [h |-> h, op |-> op, ret |-> ret, val |-> 0]]

\* open(path, "a+"): creates an empty file when the path names none
OpenAppend(S) ==
    IF S.path # 0 THEN S
    ELSE LET i == FreeInode(S)
         IN [S EXCEPT !.path = i, !.content[i] = 0, !.lockedBy[i] = 0]

\* closing description d on inode i drops the OS lock it holds
CloseDesc(S, i, d) ==
    IF i # 0 /\ S.lockedBy[i] = d THEN [S EXCEPT !.lockedBy[i] = 0] ELSE S

\* portalocker.lock(fh, LOCK_EX | LOCK_NB) succeeds iff no description holds it
LockFree(S, i) == S.lockedBy[i] = 0

\* an acquire() that leaves the description _fh named before open
AcquireOpenLeaks(S, h) ==
    LET T == OpenAppend(S)
    IN [T EXCEPT !.fh[h] = T.path, !.pc[h] = "a_lock"]

\* acquire(), line 32: self._fh = open(...); the description _fh named before
\* loses its last reference and is closed (CPython closes a file object when
\* its reference count reaches zero)
AcquireOpen(S, h) ==
    LET T == OpenAppend(S)
        U == IF S.fh[h] # 0 THEN CloseDesc(T, S.fh[h], h) ELSE T
    IN [U EXCEPT !.fh[h] = T.path, !.pc[h] = "a_lock"]

\* acquire(), lines 33 and 38-43
AcquireLock(S, h) ==
    IF LockFree(S, S.fh[h])
    THEN [S EXCEPT !.lockedBy[S.fh[h]] = h, !.pc[h] = "a_write"]
    ELSE Return([S EXCEPT !.fh[h] = 0], h, "acquire", "false")

\* acquire(), lines 34-37
AcquireWrite(S, h) ==
    Return([S EXCEPT !.content[S.fh[h]] = h], h, "acquire", "true")

\* release(), lines 49-52
ReleaseUnlock(S, h) ==
    IF S.fh[h] # 0
    THEN [CloseDesc(S, S.fh[h], h) EXCEPT !.fh[h] = 0, !.pc[h] = "r_remove"]
    ELSE [S EXCEPT !.pc[h] = "r_remove"]

\* release(), lines 53-56: os.remove(self.lock_file_path), run whether or not
\* this handle held the lock; ok is whether the filesystem lets the file go
ReleaseRemove(S, h, ok) ==
    IF ok /\ S.path # 0
    THEN Return([S EXCEPT !.path = 0], h, "release", "none")
    ELSE Return(S, h, "release", "none")

\* is_locked(), line 78
ProbeOpen(S, h) ==
    LET T == OpenAppend(S)
    IN [T EXCEPT !.tmp[h] = T.path, !.pc[h] = "p_lock"]

\* is_locked(), lines 79 and 82-83; on failure fh dies with the frame
ProbeLock(S, h) ==
    IF LockFree(S, S.tmp[h])
    THEN [S EXCEPT !.lockedBy[S.tmp[h]] = -h, !.pc[h] = "p_unlock"]
    ELSE Return([S EXCEPT !.tmp[h] = 0], h, "is_locked", "true")

\* is_locked() that returns without unlocking and closing its fh
ProbeUnlockKeepsLock(S, h) ==
    Return([S EXCEPT !.tmp[h] = 0], h, "is_locked", "false")

\* is_locked(), lines 80-81
ProbeUnlock(S, h) ==
    Return([CloseDesc(S, S.tmp[h], -h) EXCEPT !.tmp[h] = 0],
           h, "is_locked", "false")

\* the places where acquire() meets an I/O error
IOFailures == {"open", "fsync"}

\* acquire() meeting OSError: "open" at os.makedirs, line 30, before the try
\* block, or at open, line 32, self._fh staying what it was; "fsync" at
\* os.fsync, line 36, the lock taken and the record written.  Lines 38-43
\* catch LockException only.
AcquireFailure(S, h, at) ==
    IF at = "open" THEN Return(S, h, "acquire", "raised")
    ELSE LET T == AcquireLock(AcquireOpen(S, h), h)
         IN IF T.pc[h] # "a_write" THEN T
            ELSE Return([T EXCEPT !.content[T.fh[h]] = h],
                        h, "acquire", "raised")

\* holder(), lines 62-70: what it returns for the sidecar file of world S.
\* Content 0 is the empty file: f.read() or "{}" is parsed as a record
\* without host and user.
Holder(S) ==
    IF S.path = 0 THEN [ret |-> "", val |-> 0]
    ELSE IF S.content[S.path] = 0 THEN [ret |-> "?\\?", val |-> 0]
    ELSE [ret |-> "host\\user", val |-> S.content[S.path]]

\* a call starts: the handle is idle, op is the method.  Without a lock path
\* the call returns at once: lines 28-29, 46-47 and 75-76
LockCall(S, h, op) ==
    IF S.lockFile[h] = ""
    THEN Return(S, h, op, CASE op = "acquire" -> "true"
                            [] op = "release" -> "none"
                            [] op = "is_locked" -> "false")
    ELSE [S EXCEPT !.pc[h] = CASE op = "acquire" -> "a_open"
                        [] op = "release" -> "r_unlock"
                        [] op = "is_locked" -> "p_open"]

\* one step of the call handle h is in
LockStep(S, h, ok) ==
    Reap(CASE S.pc[h] = "a_open"   -> AcquireOpen(S, h)
           [] S.pc[h] = "a_lock"   -> AcquireLock(S, h)
           [] S.pc[h] = "a_write"  -> AcquireWrite(S, h)
           [] S.pc[h] = "r_unlock" -> ReleaseUnlock(S, h)
           [] S.pc[h] = "r_remove" -> ReleaseRemove(S, h, ok)
           [] S.pc[h] = "p_open"   -> ProbeOpen(S, h)
           [] S.pc[h] = "p_lock"   -> ProbeLock(S, h)
           [] S.pc[h] = "p_unlock" -> ProbeUnlock(S, h)
           [] OTHER                -> S)

\* a whole call, start to return (no call has more than three steps)
LockRun(S, h, op, ok) ==
    LockStep(LockStep(LockStep(LockCall(S, h, op), h, ok), h, ok), h, ok)

\* the handles whose _fh holds the OS lock
HoldersOf(S) == {h \in Handles : S.fh[h] # 0 /\ S.lockedBy[S.fh[h]] = h}

Holders == HoldersOf(LockSt)

\* what acquire() by handle g would return now
WouldAcquire(g) == LockRun(LockSt, g, "acquire", TRUE).last.ret

\* what is_locked() by handle g would return now
WouldProbe(g) == LockRun(LockSt, g, "is_locked", TRUE).last.ret

InitLockAt(paths) ==
    /\ dbPath = paths
    /\ started = 0
    /\ path = 0
    /\ lockedBy = [i \in Inodes |-> 0]
    /\ content = [i \in Inodes |-> 0]
    /\ fh = [h \in Handles |-> 0]
    /\ tmp = [h \in Handles |-> 0]
    /\ lpc = [h \in Handles |-> "idle"]
    /\ last = [h |-> 0, op |-> "none", ret |-> "none", val |-> 0]

\* every handle is made for the shared database
InitLock == InitLockAt([h \in Handles |-> SharedDb])

AllIdle == \A h \in Handles : lpc[h] = "idle"

Acquire(h) ==
    /\ AllIdle
    /\ SetLockSt(LockRun(LockSt, h, "acquire", TRUE))

Release(h) ==
    /\ AllIdle
    /\ \E ok \in BOOLEAN : SetLockSt(LockRun(LockSt, h, "release", ok))

IsLocked(h) ==
    /\ AllIdle
    /\ SetLockSt(LockRun(LockSt, h, "is_locked", TRUE))

\* the process owning handle h dies: the OS closes its descriptions, the
\* sidecar file stays behind; the handle stands for the process started next
Crash(h) ==
    /\ AllIdle
    /\ fh[h] # 0
    /\ SetLockSt(Reap([CloseDesc(LockSt, fh[h], h) EXCEPT
                          !.fh[h] = 0,
                          !.last = [h |-> h, op |-> "crash", ret |-> "none",
                                     val |-> 0]]))

\* acquire() with an I/O error on its way
AcquireFails(h) ==
    /\ AllIdle
    /\ LockSt.lockFile[h] # ""
    /\ \E at \in IOFailures :
          SetLockSt(Reap(AcquireFailure(LockSt, h, at)))

\* holder(), lines 61-63: "" without a lock path
HolderFor(S, h) ==
    IF S.lockFile[h] = "" THEN [ret |-> "", val |-> 0] ELSE Holder(S)

\* holder()
HolderCall(h) ==
    /\ AllIdle
    /\ SetLockSt([LockSt EXCEPT
                    !.last = [h |-> h, op |-> "holder",
                              ret |-> HolderFor(LockSt, h).ret,
                              val |-> HolderFor(LockSt, h).val]])

\* the methods whose steps other processes can interleave with
LockOps == {"acquire", "release", "is_locked"}

\* handle h, idle, enters a call
StartCall(h, op) ==
    /\ lpc[h] = "idle"
    /\ started < MaxCalls
    /\ started' = started + 1
    /\ SetLockVars(LockCall(LockSt, h, op))
    /\ UNCHANGED <<syncVars, backupVars, attachVars, deskVars>>

\* handle h executes the next step of its call; the handles are in different
\* processes, so the steps of their calls interleave
StepCall(h) ==
    /\ lpc[h] # "idle"
    /\ \E ok \in BOOLEAN : SetLockSt(LockStep(LockSt, h, ok))

(***************************************************************************)
(* ----------------------------- RemoteSync ------------------------------ *)
(* One Streamlit process: _bootstrap_db() is cached process-wide, so every *)
(* script run uses the LOCAL_DB file and the REMOTE_REV of the bootstrap   *)
(* that was current when the run started; "Herladen" clears the cache and  *)
(* the next run downloads again (a new bootstrap).  The host assigns a new *)
(* headRevisionId on every update of the file.                             *)
(***************************************************************************)

\* upload_db's check that lets the update through whatever the host reports
RevisionMatchesAlways(head, expect) == TRUE

\* drive_store.py line 66: now.get("headRevisionId") != expect_head_rev raises
RevisionMatches(head, expect) == head = expect

\* an acquisition that does not look at the lock
LockAvailableAlways(m) == TRUE

\* drive_store.py line 78: _lock.acquire(timeout=30) gets a free lock
LockAvailable(m) == m = 0

\* a save that stores the revision of the update response
TrackedRevRefreshed(old, new) == new

\* streamlit_app.py lines 56-60: upload_db's result is dropped, REMOTE_REV stays
TrackedRevAfterUpload(old, new) == old

\* a save that adopts the host's revision when it is refused
TrackedRevAdopted(old, head) == head

\* drive_store.py line 67 and streamlit_app.py lines 61-62: the conflict is
\* shown, REMOTE_REV stays
TrackedRevAfterConflict(old, head) == old

InitSyncAt(cap) ==
    /\ revCap = cap
    /\ hostRev = 1
    /\ hostBytes = 1
    /\ cur = 0
    /\ boot = [g \in Boots |-> [rev |-> 0, bytes |-> 0]]
    /\ mutex = 0
    /\ tpc = [t \in Threads |-> "idle"]
    /\ tgen = [t \in Threads |-> 0]
    /\ uploads = [g \in Boots |-> 0]
    /\ refusals = [g \in Boots |-> 0]
    /\ waited = [t \in Threads |-> 0]

InitSync == InitSyncAt(MaxRev)

BootInUse(g, c, tg) == g = c \/ \E t \in Threads : tg[t] = g

\* a bootstrap that is neither cached nor used by a running script is gone:
\* no later run can bind its LOCAL_DB or REMOTE_REV
LiveBoots(f, zero, c, tg) ==
    [g \in Boots |-> IF BootInUse(g, c, tg) THEN f[g] ELSE zero]

NoBoot == [rev |-> 0, bytes |-> 0]

FreeBoot ==
    CHOOSE g \in Boots :
        /\ ~BootInUse(g, cur, tgen)
        /\ \A k \in Boots : ~BootInUse(k, cur, tgen) => g <= k

\* File contents are compared for equality only, so they are named in the
\* order host, bootstrap 1, 2, ...: the host's bytes are 1, the first local
\* file that differs holds 2, and so on; 0 is a local file not written yet.
\* FilesOf lists the contents, Renamed gives a content its name.
FilesOf(h, bt) ==
    [i \in 0..(NumThreads + 1) |-> IF i = 0 THEN h ELSE bt[i].bytes]

FirstAt(F, c) ==
    CHOOSE i \in DOMAIN F : F[i] = c /\ \A j \in DOMAIN F : F[j] = c => i <= j

Renamed(F, c) ==
    IF c = 0 THEN 0
    ELSE 1 + Cardinality({d \in {F[i] : i \in DOMAIN F} \ {0} :
                             FirstAt(F, d) < FirstAt(F, c)})

\* the host holds bytes h and the bootstraps are bt
SetFiles(h, bt) ==
    /\ hostBytes' = Renamed(FilesOf(h, bt), h)
    /\ boot' = [g \in Boots |->
                  [bt[g] EXCEPT !.bytes = Renamed(FilesOf(h, bt), bt[g].bytes)]]

\* bytes written by an editor: they differ from all bytes around
FreshBytes == NumThreads + 3

\* download_db lines 45-48: the metadata, fetched first
DownloadMeta(t) ==
    /\ tpc[t] = "idle"
    /\ cur = 0
    /\ \A u \in Threads : tpc[u] # "d_media"
    /\ boot' = [boot EXCEPT ![FreeBoot] = [rev |-> hostRev, bytes |-> 0]]
    /\ tgen' = [tgen EXCEPT ![t] = FreeBoot]
    /\ tpc' = [tpc EXCEPT ![t] = "d_media"]
    /\ UNCHANGED <<hostRev, hostBytes, cur, mutex, uploads, refusals>>
    /\ UNCHANGED <<waited, revCap>>
    /\ UNCHANGED <<lockVars, backupVars, attachVars, deskVars>>

\* download_db lines 50-57: the media, written to the local file
DownloadMedia(t) ==
    /\ tpc[t] = "d_media"
    /\ SetFiles(hostBytes, [boot EXCEPT ![tgen[t]].bytes = hostBytes])
    /\ cur' = tgen[t]
    /\ tgen' = [tgen EXCEPT ![t] = 0]
    /\ tpc' = [tpc EXCEPT ![t] = "idle"]
    /\ UNCHANGED <<hostRev, mutex, uploads, refusals>>
    /\ UNCHANGED <<waited, revCap>>
    /\ UNCHANGED <<lockVars, backupVars, attachVars, deskVars>>

\* a committed edit of the local database, made by a script run
LocalEdit ==
    /\ cur # 0
    /\ SetFiles(hostBytes, [boot EXCEPT ![cur].bytes = FreshBytes])
    /\ UNCHANGED <<hostRev, cur, mutex, tpc, tgen, uploads, refusals>>
    /\ UNCHANGED <<waited, revCap>>
    /\ UNCHANGED <<lockVars, backupVars, attachVars, deskVars>>

\* streamlit_app.py lines 52-54: st.cache_resource.clear()
Herladen(t) ==
    /\ tpc[t] = "idle"
    /\ cur # 0
    /\ cur' = 0
    /\ SetFiles(hostBytes, LiveBoots(boot, NoBoot, 0, tgen))
    /\ uploads' = LiveBoots(uploads, 0, 0, tgen)
    /\ refusals' = LiveBoots(refusals, 0, 0, tgen)
    /\ UNCHANGED <<hostRev, mutex, tpc, tgen>>
    /\ UNCHANGED <<waited, revCap>>
    /\ UNCHANGED <<lockVars, backupVars, attachVars, deskVars>>

\* streamlit_app.py lines 35-38 and 56-58: the run binds LOCAL_DB and REMOTE_REV
\* and enters exclusive_writer()
Opslaan(t) ==
    /\ tpc[t] = "idle"
    /\ cur # 0
    /\ tgen' = [tgen EXCEPT ![t] = cur]
    /\ tpc' = [tpc EXCEPT ![t] = "w_acquire"]
    /\ UNCHANGED <<hostRev, hostBytes, cur, boot, mutex, uploads, refusals>>
    /\ waited' = [waited EXCEPT ![t] = 0]
    /\ UNCHANGED revCap
    /\ UNCHANGED <<lockVars, backupVars, attachVars, deskVars>>

\* exclusive_writer line 78, acquired
WriterAcquire(t) ==
    /\ tpc[t] = "w_acquire"
    /\ LockAvailable(mutex)
    /\ mutex' = t
    /\ tpc' = [tpc EXCEPT ![t] = "u_check"]
    /\ UNCHANGED <<waited, revCap>>
    /\ UNCHANGED <<hostRev, hostBytes, cur, boot, tgen, uploads, refusals>>
    /\ UNCHANGED <<lockVars, backupVars, attachVars, deskVars>>

\* exclusive_writer lines 78-79: the lock stayed taken for 30 seconds (the
\* time itself is not measured here: see WriterExpire)
WriterTimeout(t) ==
    /\ tpc[t] = "w_acquire"
    /\ mutex # 0
    /\ UNCHANGED <<waited, revCap>>
    /\ tpc' = [tpc EXCEPT ![t] = "idle"]
    /\ tgen' = [tgen EXCEPT ![t] = 0]
    /\ SetFiles(hostBytes, LiveBoots(boot, NoBoot, cur, tgen'))
    /\ uploads' = LiveBoots(uploads, 0, cur, tgen')
    /\ refusals' = LiveBoots(refusals, 0, cur, tgen')
    /\ UNCHANGED <<hostRev, cur, mutex>>
    /\ UNCHANGED <<lockVars, backupVars, attachVars, deskVars>>

\* the timeout argument of _lock.acquire, drive_store.py line 78
WriterTimeoutSec == 30

\* time that passes between two events of the process, in seconds
Waits == {10, 20}

\* an acquisition that never gives up
WaitExpiredNever(w) == FALSE

\* threading.Lock.acquire(timeout=30) returns False once 30 seconds are over
WaitExpired(w) == w >= WriterTimeoutSec

\* time passes for every thread inside _lock.acquire(timeout=30); a thread
\* whose 30 seconds are over returns from the call before more time passes
Elapse(d) ==
    /\ \E t \in Threads : tpc[t] = "w_acquire"
    /\ \A t \in Threads : tpc[t] = "w_acquire" => ~WaitExpired(waited[t])
    /\ waited' = [t \in Threads |->
                    IF tpc[t] # "w_acquire" THEN waited[t]
                    ELSE IF waited[t] + d > WriterTimeoutSec
                    THEN WriterTimeoutSec
                    ELSE waited[t] + d]
    /\ UNCHANGED revCap
    /\ UNCHANGED <<hostRev, hostBytes, cur, boot, mutex, tpc, tgen, uploads,
                   refusals>>
    /\ UNCHANGED <<lockVars, backupVars, attachVars, deskVars>>

\* exclusive_writer lines 78-79 with the clock: acquire returns False only
\* when its 30 seconds are over
WriterExpire(t) ==
    /\ WaitExpired(waited[t])
    /\ WriterTimeout(t)

\* an update that stores nothing new
UploadedBytesKept(local, host) == host

\* upload_db line 69: the media body is the local file
UploadedBytes(local, host) == local

\* upload_db lines 65-67; "x_conflict": the RuntimeError leaves the with block
UploadCheck(t) ==
    /\ tpc[t] = "u_check"
    /\ IF RevisionMatches(hostRev, boot[tgen[t]].rev)
       THEN /\ tpc' = [tpc EXCEPT ![t] = "u_update"]
            /\ UNCHANGED <<refusals, boot>>
       ELSE /\ tpc' = [tpc EXCEPT ![t] = "x_conflict"]
            /\ refusals' = [refusals EXCEPT
                              ![tgen[t]] = IF @ < 2 THEN @ + 1 ELSE @]
            /\ boot' = [boot EXCEPT
                          ![tgen[t]].rev = TrackedRevAfterConflict(@, hostRev)]
    /\ UNCHANGED <<hostRev, hostBytes, cur, mutex, tgen, uploads>>
    /\ UNCHANGED <<waited, revCap>>
    /\ UNCHANGED <<lockVars, backupVars, attachVars, deskVars>>

\* upload_db lines 69-71; "x_ok": the with block ends
UploadUpdate(t) ==
    /\ tpc[t] = "u_update"
    /\ hostRev < revCap
    /\ hostRev' = hostRev + 1
    /\ SetFiles(UploadedBytes(boot[tgen[t]].bytes, hostBytes),
                [boot EXCEPT
                    ![tgen[t]].rev = TrackedRevAfterUpload(@, hostRev + 1)])
    /\ uploads' = [uploads EXCEPT ![tgen[t]] = @ + 1]
    /\ tpc' = [tpc EXCEPT ![t] = "x_ok"]
    /\ UNCHANGED <<cur, mutex, tgen, refusals>>
    /\ UNCHANGED <<waited, revCap>>
    /\ UNCHANGED <<lockVars, backupVars, attachVars, deskVars>>

\* a with block that releases the lock only when its body ended normally
MutexAfterBodyNoFinally(pc, m) == IF pc = "x_ok" THEN 0 ELSE m

\* exclusive_writer lines 80-83: try: yield, finally: _lock.release(), pc
\* being how the body ended and m the holder of the lock
MutexAfterBody(pc, m) == 0

\* exclusive_writer lines 82-83
WriterExit(t) ==
    /\ tpc[t] \in {"x_ok", "x_conflict"}
    /\ mutex' = MutexAfterBody(tpc[t], mutex)
    /\ tpc' = [tpc EXCEPT ![t] = "idle"]
    /\ tgen' = [tgen EXCEPT ![t] = 0]
    /\ SetFiles(hostBytes, LiveBoots(boot, NoBoot, cur, tgen'))
    /\ uploads' = LiveBoots(uploads, 0, cur, tgen')
    /\ refusals' = LiveBoots(refusals, 0, cur, tgen')
    /\ UNCHANGED <<hostRev, cur>>
    /\ UNCHANGED <<waited, revCap>>
    /\ UNCHANGED <<lockVars, backupVars, attachVars, deskVars>>

\* another writer (another instance, the Drive UI) updates the remote file
ExternalWrite ==
    /\ hostRev < revCap
    /\ hostRev' = hostRev + 1
    /\ SetFiles(FreshBytes, boot)
    /\ UNCHANGED <<cur, mutex, tpc, tgen, uploads, refusals>>
    /\ UNCHANGED <<waited, revCap>>
    /\ UNCHANGED <<lockVars, backupVars, attachVars, deskVars>>

(***************************************************************************)
(* ---------------------------- BackupManager ---------------------------- *)
(* One manager on one database file.  The clock advances between calls,    *)
(* and during a call by one of Durs: _rotate reads it after the copy.       *)
(***************************************************************************)

Policies ==
    {[retentionDays |-> DefaultRetentionDays,
      minIntervalSec |-> DefaultMinIntervalSec],
     [retentionDays |-> 0, minIntervalSec |-> 0]}

\* a throttle that lets a commit through only after more than the interval
ShouldRunStrict == (now - lastRun) > minIntervalSec

\* _should_run, line 40
ShouldRun == (now - lastRun) >= minIntervalSec

\* _rotate, line 44, t the clock read there
Cutoff(t) == t - retentionDays * Day

\* _rotate, line 47: the files rotation looks at
Considered(f) == f.kind # "other"

\* a rotation that also deletes the file whose age is exactly the retention
ExpiredInclusive(f, t) == f.mtime <= Cutoff(t)

\* _rotate, lines 51-52
Expired(f, t) == f.mtime < Cutoff(t)

\* _rotate, lines 46-56: failed are the files whose os.remove raised
Rotated(fs, failed, t) ==
    {f \in fs : ~Considered(f) \/ ~Expired(f, t) \/ f \in failed}

\* run_backup_now, lines 65-70: the file at _backup_filename() after
\* sqlite3.connect(dest) and the copy; v is whether it holds the database
WithSnapshot(fs, v) ==
    {f \in fs : ~(f.kind = "snapshot" /\ f.name = now)} \cup {Snapshot(now, v)}

\* the exceptions the calls of run_backup_now can raise
Exceptions == {"OSError", "sqlite3.Error"}

\* a handler that lets database errors through
CatchesOSErrorOnly(e) == e = "OSError"

\* run_backup_now, line 78: except Exception
Catches(e) == e \in Exceptions

\* how run_backup_now ends when exception e is raised inside its try block
Failed(e) == IF Catches(e) THEN "none" ELSE "raised"

\* run_backup_now.  copy is how the copy of lines 65-70 went: "ok"; "nosrc",
\* db_path names no file, so that sqlite3.connect creates an empty database
\* and the copy of it goes through; "fail", it raised, left being whether the
\* destination file had been created by then.  dur are the seconds the copy
\* took: _rotate and line 74 read the clock at now + dur.  listOk is whether
\* os.listdir of line 46 went through, failed the files rotation could not
\* delete.
RunBackup(copy, left, dur, listOk, failed) ==
    /\ now' = now + dur
    /\ ticks' = IF dur > 0 THEN ticks + 1 ELSE ticks
    /\ IF copy = "fail"
       THEN /\ files' = IF left THEN WithSnapshot(files, FALSE) ELSE files
            /\ bret' = Failed("sqlite3.Error")
            /\ UNCHANGED lastRun
       ELSE IF ~listOk
       THEN /\ files' = WithSnapshot(files, copy = "ok")
            /\ bret' = Failed("OSError")
            /\ UNCHANGED lastRun
       ELSE /\ files' = Rotated(WithSnapshot(files, copy = "ok"), failed, now')
            /\ lastRun' = now'
            /\ bret' = "path"

InitBackup(p, fileSets) ==
    /\ now = StartTime
    /\ ticks = 0
    /\ retentionDays = p.retentionDays
    /\ minIntervalSec = p.minIntervalSec
    /\ lastRun = 0
    /\ files \in fileSets
    /\ prevCommit = 0
    /\ bret = "-"

\* the clock advances, by d seconds between two calls
Tick(d) ==
    /\ ticks < MaxTicks
    /\ ticks = 0 \/ bret # "-"
    /\ ticks' = ticks + 1
    /\ now' = now + d
    /\ bret' = "-"
    /\ UNCHANGED <<retentionDays, minIntervalSec, lastRun, files, prevCommit>>
    /\ UNCHANGED <<lockVars, syncVars, attachVars, deskVars>>

\* the seconds a call can take with the advances of the clock that are left
DursLeft == {d \in Durs : d = 0 \/ ticks < MaxTicks}

\* the deletions that can fail in one rotation at clock t, v being whether the
\* copy holds the database
FailSets(v, t) ==
    {F \in SUBSET {f \in WithSnapshot(files, v) :
                      Considered(f) /\ Expired(f, t)} :
        Cardinality(F) <= MaxFailed}

\* run_backup_now, lines 59-79 ("Backup nu")
RunBackupNowWith(copy, left, dur, listOk, failed) ==
    /\ RunBackup(copy, left, dur, listOk, failed)
    /\ UNCHANGED <<retentionDays, minIntervalSec, prevCommit>>
    /\ UNCHANGED <<lockVars, syncVars, attachVars, deskVars>>

RunBackupNow ==
    \/ \E dur \in DursLeft : \E failed \in FailSets(TRUE, now + dur) :
          RunBackupNowWith("ok", FALSE, dur, TRUE, failed)
    \/ \E dur \in DursLeft : \E failed \in FailSets(FALSE, now + dur) :
          RunBackupNowWith("nosrc", FALSE, dur, TRUE, failed)
    \/ \E copy \in {"ok", "nosrc"} :
          RunBackupNowWith(copy, FALSE, 0, FALSE, {})
    \/ \E left \in BOOLEAN : RunBackupNowWith("fail", left, 0, TRUE, {})

\* maybe_backup_after_commit, lines 81-85
MaybeBackupAfterCommitWith(copy, left, dur, listOk, failed) ==
    /\ prevCommit' = now
    /\ IF ShouldRun
       THEN RunBackup(copy, left, dur, listOk, failed)
       ELSE /\ bret' = "skip"
            /\ UNCHANGED <<now, ticks, files, lastRun>>
    /\ UNCHANGED <<retentionDays, minIntervalSec>>
    /\ UNCHANGED <<lockVars, syncVars, attachVars, deskVars>>

\* attach_to_session._handler, lines 106-110: called after a commit, db_path
\* naming a file
MaybeBackupAfterCommit ==
    \/ \E dur \in DursLeft : \E failed \in FailSets(TRUE, now + dur) :
          MaybeBackupAfterCommitWith("ok", FALSE, dur, TRUE, failed)
    \/ MaybeBackupAfterCommitWith("ok", FALSE, 0, FALSE, {})
    \/ \E left \in BOOLEAN :
          MaybeBackupAfterCommitWith("fail", left, 0, TRUE, {})

\* attach_to_session._handler, line 109: after a commit, db_path naming no
\* file, the handler does nothing
AfterCommitNoDatabase ==
    /\ prevCommit' = now
    /\ bret' = "skip"
    /\ UNCHANGED <<now, ticks, retentionDays, minIntervalSec, lastRun, files>>
    /\ UNCHANGED <<lockVars, syncVars, attachVars, deskVars>>

(***************************************************************************)
(* ------------------- BackupManager.attach_to_session ------------------- *)
(* One manager.  Every attach_to_session call makes a new handler; the      *)
(* listeners of the manager on one session all behave alike, so they are    *)
(* counted.  The handler of the latest call is the one the manager keeps.   *)
(***************************************************************************)

NoCommit ==
    [s |-> 0, on |-> FALSE, nth |-> 0, file |-> FALSE, ran |-> 0, calls |-> 0]

InitAttach ==
    /\ attached = 0
    /\ subs = [s \in Sessions |-> 0]
    /\ dbfile = TRUE
    /\ times = [s \in Sessions |-> 0]
    /\ fired = NoCommit

\* a re-attachment that leaves the old listener in place
DetachSkipped(n) == n

\* backupmgr.py lines 96-101: event.remove takes the kept handler off the
\* session it was attached to; when it is not there, the error is swallowed
Detached(n) == IF n > 0 THEN n - 1 ELSE n

\* backupmgr.py lines 88-113
AttachToSession(s) ==
    /\ subs' = LET d == IF attached # 0
                        THEN [subs EXCEPT ![attached] = Detached(@)]
                        ELSE subs
               IN [d EXCEPT ![s] = @ + 1]
    /\ attached' = s
    /\ times' = [times EXCEPT ![s] = IF @ < 2 THEN @ + 1 ELSE @]
    /\ UNCHANGED <<dbfile, fired>>
    /\ UNCHANGED <<lockVars, syncVars, backupVars, deskVars>>

\* backupmgr.py lines 106-110: what one run of the handler calls
HandlerCalls(file) == IF file THEN 1 ELSE 0

\* session s commits: SQLAlchemy runs every after_commit listener on s
Commit(s) ==
    /\ fired' = [s |-> s, on |-> (s = attached), nth |-> times[s],
                 file |-> dbfile, ran |-> subs[s],
                 calls |-> subs[s] * HandlerCalls(dbfile)]
    /\ UNCHANGED <<attached, subs, dbfile, times>>
    /\ UNCHANGED <<lockVars, syncVars, backupVars, deskVars>>

\* the file at db_path is removed, or put back
DatabaseFile ==
    /\ dbfile' = ~dbfile
    /\ UNCHANGED <<attached, subs, times, fired>>
    /\ UNCHANGED <<lockVars, syncVars, backupVars, deskVars>>

(***************************************************************************)
(* ------------------------ MainWindow (desktop) ------------------------- *)
(* One window per EditLock handle, all on the same database file.  The      *)
(* toggle action is checked exactly when the window is not read-only.       *)
(***************************************************************************)

InitDesk == readonly = [h \in Handles |-> TRUE]

\* one EditLock call of window h from start to return, then readonly = ro
WindowStep(S, h, ro) ==
    /\ SetLockVars(S)
    /\ readonly' = [readonly EXCEPT ![h] = ro]
    /\ UNCHANGED started
    /\ UNCHANGED <<syncVars, backupVars, attachVars>>

\* main.py lines 233-247: the toggle is checked.  When acquire() returns
\* False, setChecked(False) emits toggled(False), which runs lines 249-252:
\* release() and _apply_readonly(True)
ToggleEditOn(h) ==
    /\ AllIdle
    /\ readonly[h]
    /\ LET A == LockRun(LockSt, h, "acquire", TRUE)
       IN IF A.last.ret = "true"
          THEN WindowStep(A, h, FALSE)
          ELSE \E ok \in BOOLEAN :
                  WindowStep(LockRun(A, h, "release", ok), h, TRUE)

\* main.py lines 249-252: the toggle is unchecked
ToggleEditOff(h) ==
    /\ AllIdle
    /\ ~readonly[h]
    /\ \E ok \in BOOLEAN :
          WindowStep(LockRun(LockSt, h, "release", ok), h, TRUE)

\* main.py lines 292-341: release() whatever the mode, then a new EditLock and
\* _apply_readonly(True); the handle stands for the window when it comes back
\* to this database
ChangeDatabase(h) ==
    /\ AllIdle
    /\ \E ok \in BOOLEAN :
          WindowStep(LockRun(LockSt, h, "release", ok), h, TRUE)

\* main.py lines 470-479: release() whatever the mode; the handle stands for
\* the window opened next
CloseEvent(h) ==
    /\ AllIdle
    /\ \E ok \in BOOLEAN :
          WindowStep(LockRun(LockSt, h, "release", ok), h, TRUE)

(***************************************************************************)
(* --------------------------- specifications ---------------------------- *)
(***************************************************************************)

vars == <<lockVars, syncVars, backupVars, attachVars, deskVars>>

DefaultPolicy ==
    [retentionDays |-> DefaultRetentionDays,
     minIntervalSec |-> DefaultMinIntervalSec]

\* the other mechanisms at rest
InitLockOnly ==
    /\ InitLock
    /\ InitSync
    /\ InitBackup(DefaultPolicy, {{}})
    /\ InitAttach
    /\ InitDesk

InitSyncOnly == InitLockOnly

InitAttachOnly == InitLockOnly

InitDeskOnly == InitLockOnly

InitBackupOnly ==
    /\ InitLock
    /\ InitSync
    /\ InitAttach
    /\ InitDesk
    /\ \E p \in Policies : InitBackup(p, {OldFiles \cup ForeignFiles})

NextLock ==
    \E h \in Handles :
        \/ Acquire(h)
        \/ AcquireFails(h)
        \/ Release(h)
        \/ IsLocked(h)
        \/ HolderCall(h)
        \/ Crash(h)

NextSync ==
    \/ \E t \in Threads :
          \/ DownloadMeta(t)
          \/ DownloadMedia(t)
          \/ Herladen(t)
          \/ Opslaan(t)
          \/ WriterAcquire(t)
          \/ WriterTimeout(t)
          \/ UploadCheck(t)
          \/ UploadUpdate(t)
          \/ WriterExit(t)
    \/ LocalEdit
    \/ ExternalWrite

NextBackup ==
    \/ \E d \in Jumps : Tick(d)
    \/ RunBackupNow
    \/ MaybeBackupAfterCommit
    \/ AfterCommitNoDatabase

SpecLock == InitLockOnly /\ [][NextLock]_vars

\* handles made for any database path
InitPathsOnly ==
    /\ \E paths \in [Handles -> DbPaths] : InitLockAt(paths)
    /\ InitSync
    /\ InitBackup(DefaultPolicy, {{}})
    /\ InitAttach
    /\ InitDesk

SpecPaths == InitPathsOnly /\ [][NextLock]_vars

\* the calls of the handles interleaved step by step
NextSteps ==
    \E h \in Handles :
        \/ \E op \in LockOps : StartCall(h, op)
        \/ StepCall(h)

SpecSteps == InitLockOnly /\ [][NextSteps]_vars

SpecSync == InitSyncOnly /\ [][NextSync]_vars

\* one revision more, for an update that follows a change made between its
\* check and itself
InitRaceOnly ==
    /\ InitLock
    /\ InitSyncAt(MaxRev + 1)
    /\ InitBackup(DefaultPolicy, {{}})
    /\ InitAttach
    /\ InitDesk

SpecRace == InitRaceOnly /\ [][NextSync]_vars

\* the writers of one process with the clock of their waits
NextWriter ==
    \/ \E d \in Waits : Elapse(d)
    \/ \E t \in Threads :
          \/ DownloadMeta(t)
          \/ DownloadMedia(t)
          \/ Opslaan(t)
          \/ WriterAcquire(t)
          \/ WriterExpire(t)
          \/ UploadCheck(t)
          \/ UploadUpdate(t)
          \/ WriterExit(t)

\* a thread inside _lock.acquire(timeout=30) returns from it, and time goes on
WriterFairness ==
    /\ WF_vars(\E d \in Waits : Elapse(d))
    /\ \A t \in Threads : WF_vars(WriterAcquire(t) \/ WriterExpire(t))

SpecWriter == InitSyncOnly /\ [][NextWriter]_vars /\ WriterFairness

SpecBackup == InitBackupOnly /\ [][NextBackup]_vars

NextAttach ==
    \/ \E s \in Sessions : AttachToSession(s)
    \/ \E s \in Sessions : Commit(s)
    \/ DatabaseFile

SpecAttach == InitAttachOnly /\ [][NextAttach]_vars

NextDesk ==
    \E h \in Handles :
        \/ ToggleEditOn(h)
        \/ ToggleEditOff(h)
        \/ ChangeDatabase(h)
        \/ CloseEvent(h)

SpecDesk == InitDeskOnly /\ [][NextDesk]_vars

(***************************************************************************)
(* ------------------------- properties: EditLock ------------------------ *)
(***************************************************************************)

\* C1: at most one handle holds the lock at any time, whatever acquire(),
\* release() and is_locked() calls the handles make.
MutualExclusion == Cardinality(Holders) <= 1

\* C6: after a handle that holds the lock has called release(), acquire() by
\* any other handle returns true, also when the sidecar file was not deleted.
ReleaseFreesLock ==
    \A h \in Holders : \A ok \in BOOLEAN : \A g \in Handles \ {h} :
        LockRun(LockRun(LockSt, h, "release", ok), g, "acquire", TRUE).last.ret
            = "true"

\* the outcome of acquire() by handle g in world S: its result and who holds
\* the lock then
LaterAcquire(S, g) ==
    LET R == LockRun(S, g, "acquire", TRUE)
    IN <<R.last.ret, HoldersOf(R)>>

\* the outcome of release() by handle g in world S, the removal succeeding or
\* failing
LaterRelease(S, g, ok) ==
    LET R == LockRun(S, g, "release", ok)
    IN <<R.last.ret, HoldersOf(R)>>

\* C7: is_locked() leaves the set of holders as it was, and acquire() or
\* release() called after it end as they would have ended without it.
ProbeKeepsOwnership ==
    \A h \in Handles :
        LET P == LockRun(LockSt, h, "is_locked", TRUE)
        IN /\ HoldersOf(P) = Holders
           /\ \A g \in Handles :
                 /\ LaterAcquire(P, g) = LaterAcquire(LockSt, g)
                 /\ \A ok \in BOOLEAN :
                       LaterRelease(P, g, ok) = LaterRelease(LockSt, g, ok)

\* is_locked() took the free lock of an existing sidecar file and gave it back
ProbedFreeLock ==
    /\ last.op = "is_locked"
    /\ last.ret = "false"
    /\ path # 0
    /\ Holders = {}

\* C8: with a sidecar file present and no handle holding the OS lock,
\* is_locked() returns false and acquire() returns true; and is_locked() by a
\* handle returns true whenever another handle holds the lock.
ReflectsOSLock ==
    \A h \in Handles :
        /\ (path # 0 /\ Holders = {}) =>
               WouldProbe(h) = "false" /\ WouldAcquire(h) = "true"
        /\ (Holders \ {h} # {}) => WouldProbe(h) = "true"

\* C14: acquire() never raises; an I/O error makes it return false, and
\* after a false result the handle does not hold the OS lock.
AcquireNeverRaises ==
    last.op = "acquire" =>
        /\ last.ret \in {"true", "false"}
        /\ last.ret = "false" => last.h \notin Holders

\* C15: holder() never raises; it returns the host and user of the record the
\* sidecar file holds, and the empty string when the file is missing or holds
\* no record, the empty file included.
HolderReadsRecord ==
    last.op = "holder" =>
        /\ last.ret # "raised"
        /\ (path # 0 /\ content[path] \in Handles) =>
               last.ret = "host\\user" /\ last.val = content[path]
        /\ (path = 0 \/ content[path] \notin Handles) => last.ret = ""

\* what a call that does nothing leaves: the world as it was, the call ended
NoOp(h, op, ret) ==
    [LockSt EXCEPT !.last = [h |-> h, op |-> op, ret |-> ret, val |-> 0]]

RecordNamesHolder ==
    \A h \in Holders : \A g \in Handles :
        /\ HolderFor(LockSt, g) = [ret |-> "host\\user", val |-> h]
        /\ LET R == LockRun(LockSt, g, "acquire", TRUE)
           IN R.last.ret = "false" =>
                  HolderFor(R, g) = [ret |-> "host\\user", val |-> h]

\* C23: when handle a's release() has unlocked and closed the file that holds
\* a's record and has not yet removed it, and handle b's acquire() then
\* returns true, b holds the lock after a's release() has ended, and no
\* acquire() of a third handle returns true.
ReleaseRaceSafe ==
    \A a \in Handles :
        (lpc[a] = "r_remove" /\ path # 0 /\ content[path] = a
            /\ LockFree(LockSt, path)) =>
        \A b \in Handles \ {a} :
            lpc[b] = "idle" =>
            LET B == LockRun(LockSt, b, "acquire", TRUE)
                A == LockStep(B, a, TRUE)
            IN B.last.ret = "true" =>
                  /\ b \in HoldersOf(A)
                  /\ \A c \in Handles \ {a, b} :
                        lpc[c] = "idle" =>
                        LockRun(A, c, "acquire", TRUE).last.ret # "true"

\* C24: release() by a handle that does not hold the lock changes nothing:
\* the sidecar file stays where it is with the record it holds, the holders
\* stay the holders, and acquire() by any other handle ends as it would have
\* ended without the call.
ReleaseByNonHolderIsNoOp ==
    \A g \in Handles \ Holders : \A ok \in BOOLEAN :
        LET R == LockRun(LockSt, g, "release", ok)
        IN /\ R.path = path
           /\ R.content = content
           /\ HoldersOf(R) = Holders
           /\ \A c \in Handles \ {g} :
                 LaterAcquire(R, c) = LaterAcquire(LockSt, c)

\* C26: acquire() returns false only when another handle holds the edit
\* lock at its lock attempt; the OS lock an is_locked() probe of another
\* handle takes for a moment never makes it return false.
AcquireRefusedByHolderOnly ==
    [][\A h \in Handles :
          (lpc[h] = "a_lock" /\ lpc'[h] = "idle"
              /\ last' = [h |-> h, op |-> "acquire", ret |-> "false",
                           val |-> 0]) =>
              Holders \ {h} # {}]_vars

\* handle h has a description with the OS lock exactly when _fh is set, and
\* then it is _fh
HandleTracksLock(S, h) ==
    \A i \in Inodes : (S.lockedBy[i] = h) = (S.fh[h] = i)

\* C27: after any sequence of acquire() and release() calls a handle's _fh is
\* set exactly when a description of that handle holds the OS lock, and it is
\* that description; this is so after a second acquire() without a release()
\* in between, and one release() after it leaves the handle without _fh and
\* without any OS lock, so that acquire() by another handle returns true
\* unless some other handle holds the lock.
StoredHandleTracksLock ==
    \A h \in Handles :
        /\ HandleTracksLock(LockSt, h)
        /\ h \in Holders =>
              LET R == LockRun(LockSt, h, "acquire", TRUE)
              IN /\ HandleTracksLock(R, h)
                 /\ \A ok \in BOOLEAN :
                       LET Q == LockRun(R, h, "release", ok)
                       IN /\ Q.fh[h] = 0
                          /\ HandleTracksLock(Q, h)
                          /\ HoldersOf(Q) = {} =>
                                \A g \in Handles \ {h} :
                                    LockRun(Q, g, "acquire", TRUE).last.ret
                                        = "true"

\* handle h acquired a second time without a release(): its acquire() opened
\* a second file while the first, removed by another handle's release(), was
\* in use, and nobody but h has a file open now, so the first was h's own
AcquiredTwice ==
    \E h \in Handles :
        /\ last = [h |-> h, op |-> "acquire", ret |-> "true", val |-> 0]
        /\ path = 2
        /\ fh[h] = 2
        /\ \A g \in Handles \ {h} : fh[g] = 0 /\ tmp[g] = 0

(***************************************************************************)
(* ------------------------ properties: RemoteSync ----------------------- *)
(***************************************************************************)

\* the host's file is what it was: its revision is, and it equals the local
\* files it equalled (contents are named anew at every step, see FilesOf)
HostUntouched ==
    /\ hostRev' = hostRev
    /\ \A g \in Boots :
          BootInUse(g, cur', tgen') =>
              (hostBytes' = boot'[g].bytes) = (hostBytes = boot[g].bytes)

\* C2: an upload goes on to the update only from a check at which the host's
\* revision equals the revision observed at download; a check at which they
\* differ raises the conflict and leaves the host's bytes and revision as they
\* were, and no update follows it.
UploadOnlyOnMatch ==
    [][\A t \in Threads :
          /\ (tpc[t] # "u_update" /\ tpc'[t] = "u_update") =>
                 tpc[t] = "u_check" /\ hostRev = boot[tgen[t]].rev
          /\ (tpc[t] = "u_check" /\ tpc'[t] # "u_check"
                 /\ hostRev # boot[tgen[t]].rev) =>
                 tpc'[t] = "x_conflict" /\ HostUntouched
          /\ tpc[t] = "x_conflict" =>
                 /\ tpc'[t] \in {"x_conflict", "idle"}
                 /\ tpc'[t] = "idle" => HostUntouched
          /\ UploadUpdate(t) => tpc[t] = "u_update"]_vars

\* an upload was refused after another writer changed the remote file
RefusedAfterRemoteChange ==
    \E t \in Threads :
        /\ tpc[t] = "x_conflict"
        /\ uploads[tgen[t]] = 0
        /\ hostRev > boot[tgen[t]].rev

\* C25: no lost update: an update of upload_db replaces the revision the
\* uploader observed at download and no other, also when a writer outside
\* the process changes the remote file between the check and the update.
NoLostUpdate ==
    [][\A t \in Threads :
          (tpc[t] = "u_update" /\ tpc'[t] = "x_ok") =>
              hostRev = boot[tgen[t]].rev]_vars

\* C28: when download_db returns, the revision it reports is the revision of
\* the bytes it wrote to the local file, also when another writer changed the
\* remote file while the download was going on.
DownloadReportsRevisionOfBytes ==
    [][\A t \in Threads :
          (tpc[t] = "d_media" /\ tpc'[t] = "idle") =>
              /\ boot'[cur'].bytes = hostBytes'
              /\ boot'[cur'].rev = hostRev]_vars

\* the threads inside the with block of exclusive_writer()
InWriter == {t \in Threads : tpc[t] \in {"u_check", "u_update", "x_ok", "x_conflict"}}

\* C30: the mutex is held by a thread exactly while that thread is inside the
\* body of exclusive_writer(): leaving the body, normally or by the Conflict
\* of upload_db, frees it, an acquisition that timed out leaves it with its
\* holder, and with no thread in the body the mutex is free for the next
\* caller.
MutexHeldInBodyOnly ==
    /\ [](/\ \A t \in Threads : (mutex = t) <=> (t \in InWriter)
          /\ (InWriter = {}) => LockAvailable(mutex))
    /\ [][\A t \in Threads :
            /\ (t \in InWriter /\ tpc'[t] = "idle") => mutex' = 0
            /\ (tpc[t] = "w_acquire" /\ tpc'[t] = "idle") =>
                   mutex' = mutex /\ mutex' \in InWriter]_vars

\* a caller holds the mutex inside the body after an upload of the same
\* session was refused and its caller left the body
AcquiredAfterConflict ==
    \E t \in Threads :
        /\ tpc[t] = "u_check"
        /\ mutex = t
        /\ refusals[tgen[t]] >= 1

\* C3: at most one thread of the process is between the revision check and the
\* end of the update, and the threads that observed one revision make at most
\* one update between them.
WritersSerialized ==
    /\ Cardinality(InWriter) <= 1
    /\ \A g \in Boots : uploads[g] <= 1
    /\ \A g, k \in Boots :
          (g # k /\ boot[g].rev # 0 /\ boot[g].rev = boot[k].rev) =>
              uploads[g] + uploads[k] <= 1

\* a thread is in its upload while another, holding the same observed
\* revision, waits for the lock
WriterWaits ==
    \E t, u \in Threads :
        /\ t # u
        /\ tpc[t] = "u_update"
        /\ tpc[u] = "w_acquire"
        /\ boot[tgen[t]].rev = boot[tgen[u]].rev

\* C9: after an upload has succeeded, the revision the session tracks is not
\* the host's, and the session's next upload is refused.
SecondUploadRefused ==
    [][\A t \in Threads :
          (tgen[t] # 0 /\ uploads[tgen[t]] >= 1) =>
              /\ boot[tgen[t]].rev # hostRev
              /\ (tpc[t] = "u_check" /\ tpc'[t] # "u_check") =>
                     tpc'[t] = "x_conflict"]_vars

\* the session uploaded once and its second upload was refused
RefusedAfterOwnUpload ==
    \E t \in Threads :
        /\ tpc[t] = "x_conflict"
        /\ uploads[tgen[t]] = 1
        /\ hostRev = boot[tgen[t]].rev + 1

\* C10: once an upload of a session has been refused, every later upload of
\* that session is refused too and the session does not change the host's
\* file; a session ends with the download that replaces it.
ConflictIsTerminal ==
    [][\A t \in Threads :
          (tgen[t] # 0 /\ refusals[tgen[t]] >= 1) =>
              /\ (tpc[t] = "u_check" /\ tpc'[t] # "u_check") =>
                     tpc'[t] = "x_conflict"
              /\ tpc'[t] # "u_update"
              /\ ~UploadUpdate(t)]_vars

\* a session was refused twice, never having uploaded
RefusedTwice ==
    \E g \in Boots : refusals[g] = 2 /\ uploads[g] = 0

(***************************************************************************)
(* ------------------------ properties: MainWindow ----------------------- *)
(***************************************************************************)

\* C20: a window is in edit mode (readonly = False) only between an
\* acquire() of its EditLock that returned True and its release(), that is
\* only while its _fh is open with the OS lock; consequently at most one of
\* the windows opened on the same database file is in edit mode at any time.
EditModeExclusive ==
    /\ \A h \in Handles : ~readonly[h] => h \in Holders
    /\ Cardinality({h \in Handles : ~readonly[h]}) <= 1

(***************************************************************************)
(* ------------------- properties: attach_to_session --------------------- *)
(***************************************************************************)

\* the manager has one listener, on the session attached last
OneSubscription ==
    subs = [s \in Sessions |-> IF s = attached THEN 1 ELSE 0]

\* C18 as stated: after any sequence of attach_to_session calls the manager
\* has exactly one after-commit subscription, on the session attached last;
\* a commit on that session invokes maybe_backup_after_commit exactly once
\* and a commit on any other session not at all.
ReattachmentBacksUpOnce ==
    /\ OneSubscription
    /\ fired # NoCommit => fired.calls = IF fired.on THEN 1 ELSE 0

\* C18 amended: after any sequence of attach_to_session calls the manager has
\* exactly one after-commit subscription, on the session attached last; a
\* commit on that session runs the manager's handler exactly once, which
\* calls maybe_backup_after_commit once when db_path names an existing file
\* and not at all otherwise; a commit on any other session runs no handler.
ReattachmentIdempotent ==
    /\ OneSubscription
    /\ fired # NoCommit =>
          /\ fired.ran = IF fired.on THEN 1 ELSE 0
          /\ fired.calls = IF fired.on /\ fired.file THEN 1 ELSE 0

\* a commit on a session attached twice, after another session had been
\* attached, made one backup call
CommittedAfterReattachment ==
    /\ fired.on
    /\ fired.nth = 2
    /\ fired.file
    /\ fired.calls = 1
    /\ \E s \in Sessions \ {fired.s} : times[s] > 0

(***************************************************************************)
(* -------------------- properties: exclusive_writer --------------------- *)
(***************************************************************************)

\* C19: exclusive_writer() waits at most 30 seconds for the mutex: no
\* acquisition lasts longer; a thread leaves the acquisition either holding
\* the mutex at the start of the guarded body, or, the mutex being held by
\* another thread at the end of its 30 seconds, with the error raised and
\* nothing of the body executed (no check, no update, the mutex untouched);
\* and every thread that waits does leave the acquisition.
WriterWaitBounded ==
    /\ [](\A t \in Threads : waited[t] <= WriterTimeoutSec)
    /\ [][\A t \in Threads :
            (tpc[t] = "w_acquire" /\ tpc'[t] # "w_acquire") =>
                IF mutex = 0
                THEN mutex' = t /\ tpc'[t] = "u_check"
                ELSE /\ waited[t] = WriterTimeoutSec
                     /\ tpc'[t] = "idle"
                     /\ UNCHANGED <<mutex, hostRev, hostBytes>>]_vars
    /\ \A t \in Threads : (tpc[t] = "w_acquire") ~> (tpc[t] # "w_acquire")

\* a thread gave up after 30 seconds: the other thread has held the mutex
\* since before the first update of the host (no body has run to its end)
TimedOutAfterThirtySeconds ==
    \E t \in Threads :
        /\ tpc[t] = "idle"
        /\ waited[t] = WriterTimeoutSec
        /\ hostRev = 1
        /\ mutex \in Threads \ {t}
        /\ tpc[mutex] = "u_check"
        /\ waited[mutex] = 0

(***************************************************************************)
(* ----------------------- properties: BackupManager --------------------- *)
(***************************************************************************)

\* the directory holds the snapshot taken at time t
SnapshotAt(fs, t) == Snapshot(t, TRUE) \in fs

\* a backup whose copy and rotation went through, forced or after a commit
BackupDone(dur, failed) ==
    \/ RunBackupNowWith("ok", FALSE, dur, TRUE, failed)
    \/ (now - lastRun) >= minIntervalSec
           /\ MaybeBackupAfterCommitWith("ok", FALSE, dur, TRUE, failed)

\* the file is there, with the name, the modification time and the content
\* it had
Kept(f) == f \in files'

\* C4: a snapshot leaves the backup directory only if its modification time
\* is older than now minus retentionDays, now the clock rotation reads, so a
\* younger one stays through every backup; with retentionDays = 14 a rotation
\* removes a snapshot modified 15 days ago (its deletion not failing) and
\* keeps one modified 13 days ago.
RetentionKept ==
    [][/\ \A f \in files :
             (f.kind = "snapshot" /\ \A g \in files' : g.name # f.name) =>
                 f.mtime < now' - retentionDays * Day
       /\ \A dur \in Durs : \A failed \in FailSets(TRUE, now + dur) :
             (retentionDays = 14 /\ BackupDone(dur, failed)) =>
                 \A f \in files :
                     /\ (f.kind = "snapshot" /\ f.mtime = now' - 15 * Day
                            /\ f \notin failed) => ~Kept(f)
                     /\ (f.kind = "snapshot" /\ f.mtime = now' - 13 * Day) =>
                            Kept(f)]_vars

\* a rotation with retentionDays = 14 removed the snapshot that was 15 days
\* old and kept those that were 14 and 13 days old
RotatedAtFourteenDays ==
    /\ retentionDays = 14
    /\ lastRun = now
    /\ now = StartTime
    /\ ~SnapshotAt(files, now - 15 * Day)
    /\ SnapshotAt(files, now - 14 * Day)
    /\ SnapshotAt(files, now - 13 * Day)

\* C5: a commit takes a snapshot exactly when at least minIntervalSec seconds
\* have passed since the last snapshot that succeeded, and otherwise changes
\* nothing; with minIntervalSec = 120 a commit 10 seconds after a commit that
\* took a snapshot takes none, and one 130 seconds after it takes the second.
CommitThrottled ==
    [][/\ \A dur \in Durs : \A failed \in FailSets(TRUE, now + dur) :
             MaybeBackupAfterCommitWith("ok", FALSE, dur, TRUE, failed) =>
                 /\ IF (now - lastRun) >= minIntervalSec
                    THEN /\ bret' = "path"
                         /\ lastRun' = now'
                         /\ retentionDays > 0 => SnapshotAt(files', now)
                    ELSE files' = files /\ lastRun' = lastRun
                 /\ (minIntervalSec = 120 /\ SnapshotAt(files, prevCommit)
                        /\ lastRun - prevCommit \in Durs) =>
                        /\ now - prevCommit = 10 =>
                               files' = files /\ lastRun' = lastRun
                        /\ now - prevCommit = 130 =>
                               /\ SnapshotAt(files', now)
                               /\ SnapshotAt(files', prevCommit)
                               /\ lastRun' = now'
       /\ \A left \in BOOLEAN :
             MaybeBackupAfterCommitWith("fail", left, 0, TRUE, {}) =>
                 /\ lastRun' = lastRun
                 /\ (now - lastRun) < minIntervalSec => files' = files]_vars

\* two commits 130 seconds apart have taken two snapshots
TwoCommitsTwoSnapshots ==
    /\ minIntervalSec = 120
    /\ prevCommit = now
    /\ lastRun = now
    /\ SnapshotAt(files, now)
    /\ SnapshotAt(files, now - 130)

\* C11: an upload whose check finds the revision observed at download goes on
\* to the update, and the update made while the host still has that revision
\* succeeds and leaves the host's bytes equal to the local file's, edits made
\* since the download included.
UploadStoresLocalFile ==
    [][\A t \in Threads :
          /\ (tpc[t] = "u_check" /\ tpc'[t] # "u_check"
                 /\ hostRev = boot[tgen[t]].rev) => tpc'[t] = "u_update"
          /\ (UploadUpdate(t) /\ hostRev = boot[tgen[t]].rev) =>
                 /\ tpc'[t] = "x_ok"
                 /\ hostRev' > hostRev
                 /\ uploads'[tgen[t]] = uploads[tgen[t]] + 1
                 /\ hostBytes' = boot'[tgen[t]].bytes]_vars

\* the first upload of a session went through with no remote change since its
\* download
UploadedAfterDownload ==
    \E t \in Threads :
        /\ tpc[t] = "x_ok"
        /\ uploads[tgen[t]] = 1
        /\ hostRev = boot[tgen[t]].rev + 1
        /\ hostBytes = boot[tgen[t]].bytes

\* C12: with retentionDays = 0 and minIntervalSec = 0 every commit takes a
\* snapshot and returns its path, the rotation that follows deletes every
\* snapshot made before (its deletion not failing), and the snapshot just made
\* is still there when the call returns.
NewSnapshotSurvives ==
    [][\A dur \in Durs : \A failed \in FailSets(TRUE, now + dur) :
          (retentionDays = 0 /\ minIntervalSec = 0
              /\ MaybeBackupAfterCommitWith("ok", FALSE, dur, TRUE, failed)) =>
              /\ bret' = "path"
              /\ SnapshotAt(files', now)
              /\ \A f \in files :
                    (f.kind = "snapshot" /\ f.name # now /\ f \notin failed) =>
                        f \notin files']_vars

\* C13: whenever the copy fails, the source database missing included,
\* run_backup_now returns None and leaves no file under the snapshot's name
\* that does not hold the database.
FailedCopyLeavesNothing ==
    [][/\ \A left \in BOOLEAN :
             RunBackupNowWith("fail", left, 0, TRUE, {}) =>
                 bret' = "none" /\ Snapshot(now, FALSE) \notin files'
       /\ \A dur \in Durs : \A failed \in FailSets(FALSE, now + dur) :
             RunBackupNowWith("nosrc", FALSE, dur, TRUE, failed) =>
                 bret' = "none" /\ Snapshot(now, FALSE) \notin files']_vars

\* C16: a file of the backup directory that is not named by the snapshot
\* convention is never deleted by rotation, whatever its modification time.
RotationKeepsForeignFiles ==
    [][\A f \in files : f.kind # "snapshot" => f \in files']_vars

\* a backup whose copy went through, from an existing database or not, and
\* whose rotation ran
RotationRan(v, dur, failed) ==
    \/ RunBackupNowWith(IF v THEN "ok" ELSE "nosrc", FALSE, dur, TRUE, failed)
    \/ v /\ (now - lastRun) >= minIntervalSec
         /\ MaybeBackupAfterCommitWith("ok", FALSE, dur, TRUE, failed)

\* C17: no call of the backup manager ends with an exception, whatever fails
\* in the copy, the directory listing or a deletion; a deletion that fails
\* leaves its file and the rotation deletes the others; the commit whose
\* handler ran the backup completes.
BackupNeverRaises ==
    [][/\ bret' # "raised"
       /\ prevCommit' # prevCommit =>
              prevCommit' = now /\ bret' \in {"path", "none", "skip"}
       /\ \A v \in BOOLEAN : \A failed \in FailSets(v, now') :
             RotationRan(v, now' - now, failed) =>
                     /\ bret' = "path"
                     /\ failed \subseteq files'
                     /\ \A f \in files \ failed :
                           (Considered(f)
                               /\ f.mtime < now' - retentionDays * Day) =>
                               f \notin files']_vars

\* a commit completed although the copy of its backup failed and left its
\* destination file
CommitSurvivedFailedBackup ==
    /\ bret = "none"
    /\ prevCommit = now
    /\ lastRun = 0
    /\ Snapshot(now, FALSE) \in files

\* the snapshot files of the backup directory
Snapshots(fs) == {f \in fs : f.kind = "snapshot"}

\* C29: a run_backup_now that succeeds, its rotation deleting nothing, leaves
\* one snapshot file more than there were, also when the snapshot before it
\* was taken within the same clock second.
EachSnapshotOwnFile ==
    [][\A dur \in Durs : \A failed \in FailSets(TRUE, now + dur) :
          (/\ BackupDone(dur, failed)
           /\ \A f \in Snapshots(files) :
                 \E g \in Snapshots(files') : g.name = f.name) =>
              Cardinality(Snapshots(files')) =
                  Cardinality(Snapshots(files)) + 1]_vars

====
